---- MODULE Spec2Model ----
(***************************************************************************)
(* Reaction networks: graph construction, re-pointing of the Precursors /  *)
(* Target nodes, cost models and Yen's k-shortest-paths search.            *)
(*                                                                         *)
(*   network.py  (rustworkx builder)  : build, set_precursors, set_target, *)
(*                                      find_pathways, yens_ksp            *)
(*   core.py     (networkx builder)   : generate_rxn_network, set_starters,*)
(*                                      set_target, set_cost_function      *)
(***************************************************************************)
EXTENDS Integers, Sequences, FiniteSets, Bags, TLC

\* ------------------------------------------------------------------ bounds
NumEntries == 3        \* size of the entry universe
MaxRxns == 2           \* reactions in the ReactionSet handed to the network
MaxCalls == 4          \* calls made on one network object
MaxBalanced == 1       \* pairs the balancer balances, under Spec
NumNodes == 4          \* nodes of the graphs handed to yens_ksp
MaxEdges == 5          \* their edges, parallel edges counted
MaxWeight == 1         \* the largest edge cost
MaxK == 3              \* the largest num_k

\* Python's None, and a value that is not None (an optional is <<>> or <<x>>)
None == <<>>
Some(x) == <<x>>
\* self._g before build()
NoGraph == [none |-> TRUE]

AllEntries == 1..NumEntries

\* ------------------------------------------------------- network.py state
VARIABLES
    rxns,          \* self.rxns: the ReactionSet, a sequence of reactions
    g,             \* self._g: NoGraph or [nodes, edges] (rustworkx PyDiGraph)
    precursors,    \* self._precursors: None or Some(set of entries)
    target,        \* self._target: None or Some(entry)
    outcome,       \* how the last call ended: "ok", "unchanged" (early return) or the error raised
    last,          \* the last call made: <<name>> or <<name, argument>>
    ncalls,        \* calls made so far
    nbuilds        \* build() calls made so far (history)

netVars == <<rxns, g, precursors, target>>

\* ---------------------------------------------------------- core.py state
VARIABLES
    max_num_components,   \* self._max_num_components
    all_combos,           \* self._all_combos: the list of combinations
    balanced,             \* the external balancer: the (reactants, products) pairs
                          \* it balances, each with its energy per atom
    rxn_network,          \* self._rxn_network: NoGraph or [nodes, edges] (nx.DiGraph)
    starters,             \* self._starters: None or Some(set of entries)
    all_targets,          \* self._all_targets: None or Some(sequence of entries)
    selected_target,      \* self._selected_target: None or Some(sequence of entries)
    cost_function,        \* self._cost_function: None or Some(name)
    complex_loopback,     \* self._complex_loopback: None or Some(BOOLEAN)
    most_negative_rxn     \* self._most_negative_rxn: Inf or Some(energy)

coreVars == <<max_num_components, all_combos, balanced, rxn_network, starters, all_targets,
              selected_target, cost_function, complex_loopback, most_negative_rxn>>

\* ------------------------------------------------------ yens_ksp state
VARIABLES
    yen_in,        \* the arguments: [g, num_k, precursors_node, target_node]
    yg,            \* g = g.copy(): the working graph
    a_list,        \* a: the accepted paths
    a_costs,       \* their costs
    b_queue,       \* b: the PriorityQueue of (cost, path) candidates, a bag
    b_pushed,      \* every (cost, path) given to b.put, in the order of the calls (history)
    k_iter,        \* k of "for k in range(1, num_k)"
    i_spur,        \* i of "for i in range(len(prev_path) - 1)"
    pc,            \* where yens_ksp stands: idle, start, loop, spur, done
    reported,      \* whether "Identified only k=... paths" was printed
    discarded      \* candidates popped and dropped as already accepted (history)

yenVars == <<yen_in, yg, a_list, a_costs, b_queue, b_pushed, k_iter, i_spur, pc, reported, discarded>>

\* ------------------------------------------- a static helper called alone
VARIABLES
    call_args,     \* the arguments of the call
    call_result    \* None until the call has returned, then Some(result)
callVars == <<call_args, call_result>>

VARIABLES
    impl           \* what the run drives: "network", "core" or "yens"

ctlVars == <<impl, outcome, last, ncalls, nbuilds>>

vars == <<netVars, coreVars, yenVars, ctlVars, callVars>>

\* --------------------------------------------------------------- helpers
RECURSIVE SeqToSet(_)
SeqToSet(s) == IF s = <<>> THEN {} ELSE {Head(s)} \cup SeqToSet(Tail(s))

\* index of the first element of s equal to x (0 when absent): list.index
IndexOf(s, x) == IF \E i \in 1..Len(s) : s[i] = x
                 THEN CHOOSE i \in 1..Len(s) : s[i] = x /\ \A j \in 1..(i-1) : s[j] # x
                 ELSE 0

\* a bag restricted to the elements of S
RestrictBag(B, S) == [e \in (DOMAIN B) \cap S |-> B[e]]

\* the payload of the structural edges of network.py (strings in the source)
loopback_edge == [str |-> "loopback_edge"]
precursor_edge == [str |-> "precursor_edge"]
target_edge == [str |-> "target_edge"]

\* NetworkEntry(entries, description)
NetworkEntry(entries, description) == [entries |-> entries, description |-> description]

\* the reactions a ReactionSet may hold: non-empty, disjoint sides
Combos(S, m) == {c \in SUBSET S : Cardinality(c) >= 1 /\ Cardinality(c) <= m}
MaxSide == 2
CandidateRxns == {[reactant_entries |-> r, product_entries |-> p] :
                    <<r, p>> \in {x \in Combos(AllEntries, MaxSide) \X Combos(AllEntries, MaxSide) :
                                    x[1] \cap x[2] = {}}}

\* ReactionSets: sequences of distinct reactions, at most MaxRxns long
RxnSeqs == UNION {{s \in [1..n -> CandidateRxns] : \A i, j \in 1..n : i # j => s[i] # s[j]} : n \in 0..MaxRxns}

\* Network.entries: the entries that occur in the reactions
entries_of(rs) == UNION {rs[i].reactant_entries \cup rs[i].product_entries : i \in 1..Len(rs)}

\* ------------------------------------------------ get_rxn_nodes_and_edges
\* (mutant) one loop iteration that appends both nodes without looking for them
rxn_step_append(acc, rxn) ==
    LET n2 == acc.nodes \o <<NetworkEntry(rxn.reactant_entries, "Reactants"),
                              NetworkEntry(rxn.product_entries, "Products")>>
    IN [nodes |-> n2,
        edges |-> Append(acc.edges, [src |-> Len(n2) - 1, dst |-> Len(n2), data |-> rxn])]

\* one loop iteration: add the reactant and the product node if new, add the edge
rxn_step(acc, rxn) ==
    LET reactant_node == NetworkEntry(rxn.reactant_entries, "Reactants")
        product_node == NetworkEntry(rxn.product_entries, "Products")
        n1 == IF IndexOf(acc.nodes, reactant_node) = 0 THEN Append(acc.nodes, reactant_node) ELSE acc.nodes
        reactant_idx == IndexOf(n1, reactant_node)
        n2 == IF IndexOf(n1, product_node) = 0 THEN Append(n1, product_node) ELSE n1
        product_idx == IndexOf(n2, product_node)
    IN [nodes |-> n2,
        edges |-> Append(acc.edges, [src |-> reactant_idx, dst |-> product_idx, data |-> rxn])]

RECURSIVE rxn_fold(_, _)
rxn_fold(acc, rs) == IF rs = <<>> THEN acc ELSE rxn_fold(rxn_step(acc, Head(rs)), Tail(rs))

get_rxn_nodes_and_edges(rs) == rxn_fold([nodes |-> <<>>, edges |-> <<>>], rs)

\* --------------------------------------------------------- get_loopback_edges
get_loopback_edges(nodes) ==
    {[src |-> idx1, dst |-> idx2, data |-> loopback_edge] :
        <<idx1, idx2>> \in {x \in (1..Len(nodes)) \X (1..Len(nodes)) :
            /\ nodes[x[1]].description = "Products"
            /\ nodes[x[2]].description = "Reactants"
            /\ nodes[x[1]].entries = nodes[x[2]].entries}}

\* a list of edges as a bag (edges.extend / g.add_edges_from keep duplicates)
RECURSIVE SeqToBag(_)
SeqToBag(s) == IF s = <<>> THEN EmptyBag ELSE SetToBag({Head(s)}) (+) SeqToBag(Tail(s))

\* ---------------------------------------------------------------- build
build_graph(rs) ==
    LET ne == get_rxn_nodes_and_edges(rs)
    IN [nodes |-> ne.nodes,
        edges |-> SeqToBag(ne.edges) (+) SetToBag(get_loopback_edges(ne.nodes))]

build ==
    /\ impl = "network"
    /\ ncalls < MaxCalls
    /\ g' = build_graph(rxns)
    /\ outcome' = "ok"
    /\ last' = <<"build">>
    /\ ncalls' = ncalls + 1
    /\ nbuilds' = nbuilds + 1
    /\ UNCHANGED <<rxns, precursors, target, impl, coreVars, yenVars, callVars>>

\* "if not g": no graph yet, or a graph without nodes (len(g) == 0)
not_g == g = NoGraph \/ Len(g.nodes) = 0

\* truthiness of self.precursors: neither None nor the empty set
truthy(x) == x # None /\ x # Some({})

\* (mutant) the node test negated: the first node of any other description
first_node_ne(gr, description) ==
    IF \E i \in 1..Len(gr.nodes) : gr.nodes[i].description # description
    THEN CHOOSE i \in 1..Len(gr.nodes) :
            /\ gr.nodes[i].description # description
            /\ \A j \in 1..(i-1) : gr.nodes[j].description = description
    ELSE 0

\* the first node index carrying the description, 0 when there is none
first_node(gr, description) ==
    IF \E i \in 1..Len(gr.nodes) : gr.nodes[i].description = description
    THEN CHOOSE i \in 1..Len(gr.nodes) :
            /\ gr.nodes[i].description = description
            /\ \A j \in 1..(i-1) : gr.nodes[j].description # description
    ELSE 0

\* g.remove_node(idx) followed by g.add_node(entry): the freed index is reused
\* and the edges of the removed node are dropped; idx = 0 appends a new node
replace_node(gr, idx, entry) ==
    IF idx = 0
    THEN [nodes |-> Append(gr.nodes, entry), edges |-> gr.edges]
    ELSE [nodes |-> [gr.nodes EXCEPT ![idx] = entry],
          edges |-> RestrictBag(gr.edges, {e \in DOMAIN gr.edges : e.src # idx /\ e.dst # idx})]

new_index(gr, idx) == IF idx = 0 THEN Len(gr.nodes) + 1 ELSE idx

\* ------------------------------------------------------- set_precursors
\* (mutant) the Products branch of the loop left out: no loopback edges
precursor_edges_only(nodes, pn, ps) ==
    {[src |-> pn, dst |-> n, data |-> precursor_edge] :
        n \in {j \in 1..Len(nodes) : nodes[j].description = "Reactants" /\ nodes[j].entries \subseteq ps}}

\* lines 141-156: the edges set_precursors adds
precursor_edges_to_add(nodes, pn, ps) ==
    {[src |-> pn, dst |-> n, data |-> precursor_edge] :
        n \in {j \in 1..Len(nodes) : nodes[j].description = "Reactants" /\ nodes[j].entries \subseteq ps}}
    \cup
    {[src |-> x[1], dst |-> x[2], data |-> loopback_edge] :
        x \in {y \in (1..Len(nodes)) \X (1..Len(nodes)) :
            /\ nodes[y[1]].description = "Products"
            /\ nodes[y[2]].description = "Reactants"
            /\ ~(nodes[y[2]].entries \subseteq ps)
            /\ nodes[y[2]].entries \subseteq (ps \cup nodes[y[1]].entries)}}

set_precursors(ps) ==
    /\ impl = "network"
    /\ ncalls < MaxCalls
    /\ last' = <<"set_precursors">>
    /\ ncalls' = ncalls + 1
    /\ UNCHANGED <<rxns, target, impl, nbuilds, coreVars, yenVars, callVars>>
    /\ IF not_g
       THEN outcome' = "must_build" /\ UNCHANGED <<g, precursors>>
       ELSE IF Some(ps) = precursors
       THEN outcome' = "unchanged" /\ UNCHANGED <<g, precursors>>
       ELSE IF ~(ps \subseteq entries_of(rxns))
       THEN outcome' = "not_in_network" /\ UNCHANGED <<g, precursors>>
       ELSE IF truthy(precursors) /\ first_node(g, "Precursors") = 0
       THEN outcome' = "old_node_not_found" /\ UNCHANGED <<g, precursors>>
       ELSE LET old == IF truthy(precursors) THEN first_node(g, "Precursors") ELSE 0
                g1 == replace_node(g, old, NetworkEntry(ps, "Precursors"))
                pn == new_index(g, old)
            IN /\ g' = [g1 EXCEPT !.edges = @ (+) SetToBag(precursor_edges_to_add(g1.nodes, pn, ps))]
               /\ precursors' = Some(ps)
               /\ outcome' = "ok"

\* ------------------------------------------------------------ set_target
target_edges_to_add(nodes, tn, t) ==
    {[src |-> n, dst |-> tn, data |-> target_edge] :
        n \in {j \in 1..Len(nodes) : nodes[j].description = "Products" /\ t \in nodes[j].entries}}

\* (mutant) the old Target node is removed before the entry is looked up
set_target_result_late(gr, tg, t) ==
    IF gr = NoGraph \/ Len(gr.nodes) = 0
    THEN [g |-> gr, target |-> tg, outcome |-> "must_build"]
    ELSE IF Some(t) = tg
    THEN [g |-> gr, target |-> tg, outcome |-> "unchanged"]
    ELSE IF tg # None /\ first_node(gr, "Target") = 0
    THEN [g |-> gr, target |-> tg, outcome |-> "old_node_not_found"]
    ELSE LET old == IF tg # None THEN first_node(gr, "Target") ELSE 0
             g1 == replace_node(gr, old, NetworkEntry({t}, "Target"))
             tn == new_index(gr, old)
         IN IF t \notin entries_of(rxns)
            THEN [g |-> g1, target |-> tg, outcome |-> "not_in_network"]
            ELSE [g |-> [g1 EXCEPT !.edges = @ (+) SetToBag(target_edges_to_add(g1.nodes, tn, t))],
                  target |-> Some(t), outcome |-> "ok"]

\* the graph and target after set_target(t) on (gr, tg), and how the call ended
set_target_result(gr, tg, t) ==
    IF gr = NoGraph \/ Len(gr.nodes) = 0
    THEN [g |-> gr, target |-> tg, outcome |-> "must_build"]
    ELSE IF Some(t) = tg
    THEN [g |-> gr, target |-> tg, outcome |-> "unchanged"]
    ELSE IF t \notin entries_of(rxns)
    THEN [g |-> gr, target |-> tg, outcome |-> "not_in_network"]
    ELSE IF tg # None /\ first_node(gr, "Target") = 0
    THEN [g |-> gr, target |-> tg, outcome |-> "old_node_not_found"]
    ELSE LET old == IF tg # None THEN first_node(gr, "Target") ELSE 0
             g1 == replace_node(gr, old, NetworkEntry({t}, "Target"))
             tn == new_index(gr, old)
         IN [g |-> [g1 EXCEPT !.edges = @ (+) SetToBag(target_edges_to_add(g1.nodes, tn, t))],
             target |-> Some(t), outcome |-> "ok"]

set_target(t) ==
    /\ impl = "network"
    /\ ncalls < MaxCalls
    /\ last' = <<"set_target">>
    /\ ncalls' = ncalls + 1
    /\ LET res == set_target_result(g, target, t)
       IN g' = res.g /\ target' = res.target /\ outcome' = res.outcome
    /\ UNCHANGED <<rxns, precursors, impl, nbuilds, coreVars, yenVars, callVars>>

\* --------------------------------------------------------- find_pathways
\* _k_shortest_paths: g.find_node_by_weight finds both end nodes (it gives None
\* for a node that is not in the graph, and the search then raises)
has_end_nodes(gr, ps, t) ==
    /\ \E j \in 1..Len(gr.nodes) : gr.nodes[j] = NetworkEntry(ps, "Precursors")
    /\ \E j \in 1..Len(gr.nodes) : gr.nodes[j] = NetworkEntry({t}, "Target")

\* the loop over the targets: set_target, then the search; the first error ends it
RECURSIVE find_pathways_result(_, _, _)
find_pathways_result(gr, tg, targets) ==
    IF targets = <<>> THEN [g |-> gr, target |-> tg, outcome |-> "ok"]
    ELSE LET res == set_target_result(gr, tg, Head(targets))
         IN IF res.outcome \notin {"ok", "unchanged"} THEN res
            ELSE IF ~has_end_nodes(res.g, precursors[1], res.target[1])
            THEN [g |-> res.g, target |-> res.target, outcome |-> "node_not_found"]
            ELSE find_pathways_result(res.g, res.target, Tail(targets))

find_pathways(targets) ==
    /\ impl = "network"
    /\ ncalls < MaxCalls
    /\ last' = <<"find_pathways">>
    /\ ncalls' = ncalls + 1
    /\ IF ~truthy(precursors)
       THEN outcome' = "must_set_precursors" /\ UNCHANGED <<g, target>>
       ELSE LET res == find_pathways_result(g, target, targets)
            IN g' = res.g /\ target' = res.target /\ outcome' = res.outcome
    /\ UNCHANGED <<rxns, precursors, impl, nbuilds, coreVars, yenVars, callVars>>


\* ====================================================== core.py (networkx)
\* chemical elements of an entry: the bits of its number (3 = elements {1, 2})
RECURSIVE bits(_, _)
bits(n, i) == IF n = 0 THEN {} ELSE (IF n % 2 = 1 THEN {i} ELSE {}) \cup bits(n \div 2, i + 1)
elements(entry) == bits(entry, 1)

\* the index sets of size n of a list of length len, in itertools.combinations order
idx_less(A, B) == LET d == (A \ B) \cup (B \ A)
                      m == CHOOSE x \in d : \A y \in d : x <= y
                  IN A # B /\ m \in A
RECURSIVE sort_idx(_)
sort_idx(S) == IF S = {} THEN <<>>
               ELSE LET a == CHOOSE x \in S : \A y \in S \ {x} : idx_less(x, y)
                    IN <<a>> \o sort_idx(S \ {a})
\* (mutant) the index sets of size n or less
combinations_upto(len, n) == sort_idx({c \in SUBSET (1..len) : Cardinality(c) <= n})

combinations(len, n) == sort_idx({c \in SUBSET (1..len) : Cardinality(c) = n})

\* generate_all_combos(entries, max_num_combos): [set(combo) for combo in chain(
\* combinations(entries, 1), ..., combinations(entries, max_num_combos))]
RECURSIVE chain_combos(_, _, _)
chain_combos(es, n, m) ==
    IF n > m THEN <<>>
    ELSE LET cs == combinations(Len(es), n)
         IN [k \in 1..Len(cs) |-> {es[i] : i \in cs[k]}] \o chain_combos(es, n + 1, m)
generate_all_combos(es, max_num_combos) == chain_combos(es, 1, max_num_combos)

\* list(a_set): some order of the elements; the order is not observable below
RECURSIVE list_of(_)
list_of(S) == IF S = {} THEN <<>>
              ELSE LET a == CHOOSE x \in S : \A y \in S : x <= y IN <<a>> \o list_of(S \ {a})

\* RxnEntries(entries, "s" | "t" | "r" | "p")
RxnEntries(es, d) ==
    [entries |-> es,
     description |-> CASE d = "s" -> "Starters" [] d = "t" -> "Target"
                       [] d = "r" -> "Reactants" [] d = "p" -> "Products"]

\* ------------------------------------------------------------ cost model
\* weights: exact rationals n/d, or the value of softplus / arrhenius at an energy
RECURSIVE gcd(_, _)
gcd(a, b) == IF b = 0 THEN a ELSE gcd(b, a % b)
abs(x) == IF x < 0 THEN -x ELSE x
Rat(n, d) == LET k == gcd(abs(n), d) IN [fn |-> "num", n |-> n \div k, d |-> d \div k]
Num(n) == Rat(n, 1)
is_negative(w) == w.fn = "num" /\ w.n < 0

\* float("inf") for _most_negative_rxn
Inf == None
less_than(x, mn) == mn = Inf \/ x < mn[1]

\* determine_rxn_weight(energy, cost_function): the weight and the running minimum
determine_rxn_weight(energy, cf, mn) ==
    CASE cf = "softplus" -> [weight |-> [fn |-> "softplus", n |-> energy, d |-> 1], most_negative |-> mn]
      [] cf = "bipartite" ->
            [weight |-> IF energy >= 0 THEN Num(2 * energy + 1) ELSE Num(energy),
             most_negative |-> IF less_than(energy, mn) THEN Some(energy) ELSE mn]
      [] cf = "rectified" -> [weight |-> IF energy < 0 THEN Num(0) ELSE Num(energy), most_negative |-> mn]
      [] cf = "arrhenius" -> [weight |-> [fn |-> "arrhenius", n |-> energy, d |-> 1], most_negative |-> mn]
      [] cf = "enthalpies_positive" ->
            [weight |-> Num(energy),
             most_negative |-> IF less_than(energy, mn) THEN Some(energy) ELSE mn]
      [] OTHER -> [weight |-> Num(0), most_negative |-> mn]

\* the running minimum after determine_rxn_weight was called on every energy of es
RECURSIVE run_min(_, _, _)
run_min(es, cf, mn) ==
    IF es = {} THEN mn
    ELSE LET e == CHOOSE x \in es : TRUE
         IN run_min(es \ {e}, cf, determine_rxn_weight(e, cf, mn).most_negative)

\* (mutant) the bipartite remap of the negative weights left out
second_pass_shift_only(w, cf, mn) ==
    IF cf = "enthalpies_positive" THEN Rat(w.n - mn[1] * w.d, w.d)
    ELSE w

\* the second pass of generate_rxn_network over one reaction edge weight
second_pass(w, cf, mn) ==
    IF cf = "enthalpies_positive" THEN Rat(w.n - mn[1] * w.d, w.d)
    ELSE IF cf = "bipartite" /\ is_negative(w) THEN Rat(w.n - mn[1] * w.d, (-mn[1]) * w.d)
    ELSE w


\* ------------------------------------------------- generate_rxn_network
\* the reaction the balancer gives for (reactants, products), None when it fails
\* (it raises, a coefficient is zero, or a composition changes sides)
ComputedReaction(reactants, products) ==
    LET hit == {b \in balanced : b.reactant_entries = reactants /\ b.product_entries = products}
    IN IF hit = {} THEN None ELSE Some(CHOOSE b \in hit : TRUE)

elems_of(combo) == UNION {elements(entry) : entry \in combo}

\* (mutant) the comparison of the element sets left out
rxn_for_any(reactants, products) ==
    IF products = reactants THEN None
    ELSE ComputedReaction(reactants, products)

\* lines 128-149: the reaction edge the builder keeps for a pair, None when skipped
rxn_for(reactants, products) ==
    IF products = reactants THEN None
    ELSE IF elems_of(reactants) # elems_of(products) THEN None
    ELSE ComputedReaction(reactants, products)

\* the combinations a Products node links back to
linking_combos(products, sts, cl) ==
    IF cl THEN SeqToSet(generate_all_combos(list_of(products \cup sts), max_num_components))
    ELSE {products}

\* nx add_edge(u, v, weight=w[, rxn=r]): u and v become nodes, the attributes given
\* are set and the others of an existing edge are kept
add_edge(gr, u, v, w, r) ==
    LET old_rxn == IF <<u, v>> \in DOMAIN gr.edges THEN gr.edges[<<u, v>>].rxn ELSE None
        attr == [weight |-> w, rxn |-> IF r = None THEN old_rxn ELSE r]
    IN [nodes |-> gr.nodes \cup {u, v},
        edges |-> [e \in (DOMAIN gr.edges) \cup {<<u, v>>} |->
                      IF e = <<u, v>> THEN attr ELSE gr.edges[e]]]

\* add_edge(u, v, weight=0) for every (u, v) of a set of pairs
add_edges0(gr, pairs) ==
    [nodes |-> gr.nodes \cup {e[1] : e \in pairs} \cup {e[2] : e \in pairs},
     edges |-> [e \in (DOMAIN gr.edges) \cup pairs |->
                  IF e \in pairs
                  THEN [weight |-> Num(0),
                        rxn |-> IF e \in DOMAIN gr.edges THEN gr.edges[e].rxn ELSE None]
                  ELSE gr.edges[e]]]

\* nx remove_node: the node and its incident edges
remove_node(gr, n) ==
    [nodes |-> gr.nodes \ {n},
     edges |-> [e \in {x \in DOMAIN gr.edges : x[1] # n /\ x[2] # n} |-> gr.edges[e]]]

\* nx remove_edge for every pair of a set (all present)
remove_edges(gr, pairs) ==
    [nodes |-> gr.nodes, edges |-> [e \in (DOMAIN gr.edges) \ pairs |-> gr.edges[e]]]

EmptyDiGraph == [nodes |-> {}, edges |-> <<>>]

\* lines 94-126: the nodes and the structural edges
structural_graph(sts, tgt, cl) ==
    LET cs == SeqToSet(all_combos)
        g0 == [nodes |-> {RxnEntries(sts, "s"), RxnEntries(tgt, "t")}
                          \cup {RxnEntries(c, "r") : c \in cs} \cup {RxnEntries(c, "p") : c \in cs},
               edges |-> <<>>]
        s_edges == {<<RxnEntries(sts, "s"), RxnEntries(c, "r")>> : c \in {x \in cs : x \subseteq sts}}
        l_edges == UNION {{<<RxnEntries(P, "p"), RxnEntries(c, "r")>> : c \in linking_combos(P, sts, cl)} : P \in cs}
        t_edges == {<<RxnEntries(P, "p"), RxnEntries(tgt, "t")>> : P \in {x \in cs : tgt \subseteq x}}
    IN add_edges0(g0, s_edges \cup l_edges \cup t_edges)

\* lines 128-155: the reactions kept, over all (products, reactants) pairs
kept_rxns == LET cs == SeqToSet(all_combos)
             IN {rxn_for(x[1], x[2])[1] : x \in {y \in cs \X cs : rxn_for(y[1], y[2]) # None}}

RECURSIVE add_rxn_edges(_, _, _, _)
add_rxn_edges(gr, rs, cf, mn) ==
    IF rs = {} THEN gr
    ELSE LET rxn == CHOOSE x \in rs : TRUE
             w == second_pass(determine_rxn_weight(rxn.energy, cf, Inf).weight, cf, mn)
         IN add_rxn_edges(add_edge(gr, RxnEntries(rxn.reactant_entries, "r"),
                                   RxnEntries(rxn.product_entries, "p"), w, Some(rxn)),
                          rs \ {rxn}, cf, mn)

\* the graph generate_rxn_network stores: both passes over the reaction edges
generated_graph(sts, tgt, cf, cl) ==
    add_rxn_edges(structural_graph(sts, tgt, cl), kept_rxns, cf,
                  run_min({r.energy : r \in kept_rxns}, cf, Inf))

\* (one generation per network object is driven)
generate_rxn_network(sts, targets, cf, cl) ==
    /\ impl = "core"
    /\ ncalls < MaxCalls
    /\ rxn_network = NoGraph
    /\ most_negative_rxn' = run_min({r.energy : r \in kept_rxns}, cf, Inf)
    /\ rxn_network' = generated_graph(sts, {targets[1]}, cf, cl)
    /\ starters' = Some(sts)
    /\ all_targets' = Some(targets)
    /\ selected_target' = Some(<<targets[1]>>)
    /\ cost_function' = Some(cf)
    /\ complex_loopback' = Some(cl)
    /\ outcome' = "ok"
    /\ last' = <<"generate_rxn_network">>
    /\ ncalls' = ncalls + 1
    /\ UNCHANGED <<max_num_components, all_combos, balanced, impl, nbuilds, netVars, yenVars, callVars>>

\* ------------------------------------------------------ set_cost_function
\* the loop over the reaction edges, threading the running minimum
RECURSIVE reweigh(_, _, _, _)
reweigh(gr, todo, cf, mn) ==
    IF todo = {} THEN [g |-> gr, most_negative |-> mn]
    ELSE LET e == CHOOSE x \in todo : TRUE
             res == determine_rxn_weight(gr.edges[e].rxn[1].energy, cf, mn)
         IN reweigh([gr EXCEPT !.edges[e].weight = res.weight], todo \ {e}, cf, res.most_negative)

set_cost_function(cf) ==
    /\ impl = "core"
    /\ ncalls < MaxCalls
    /\ rxn_network # NoGraph
    /\ LET res == reweigh(rxn_network, {e \in DOMAIN rxn_network.edges : rxn_network.edges[e].rxn # None},
                          cf, most_negative_rxn)
       IN rxn_network' = res.g /\ most_negative_rxn' = res.most_negative
    /\ outcome' = "ok"
    /\ last' = <<"set_cost_function", cf>>
    /\ ncalls' = ncalls + 1
    /\ UNCHANGED <<max_num_components, all_combos, balanced, starters, all_targets, selected_target,
                   cost_function, complex_loopback, impl, nbuilds, netVars, yenVars, callVars>>

\* ---------------------------------------------------------- set_starters
starters_node(gr) == {n \in gr.nodes : n.description = "Starters"}

\* lines 375-388: replace the Starters node and link it to the Reactants nodes
relink_starters(gr, sts) ==
    IF starters_node(gr) = {} THEN gr
    ELSE LET node == CHOOSE n \in starters_node(gr) : TRUE
             g1 == remove_node(gr, node)
             g2 == [g1 EXCEPT !.nodes = @ \cup {RxnEntries(sts, "s")}]
         IN add_edges0(g2, {<<RxnEntries(sts, "s"), RxnEntries(c, "r")>> :
                               c \in {x \in SeqToSet(all_combos) : x \subseteq sts}})

\* lines 394-405: for every Products node drop the old loopbacks, add the new
old_loopbacks == UNION {{<<RxnEntries(P, "p"), RxnEntries(c, "r")>> : c \in linking_combos(P, starters[1], TRUE)} :
                          P \in SeqToSet(all_combos)}
new_loopbacks(sts) == UNION {{<<RxnEntries(P, "p"), RxnEntries(c, "r")>> : c \in linking_combos(P, sts, TRUE)} :
                          P \in SeqToSet(all_combos)}

set_starters(sts) ==
    /\ impl = "core"
    /\ ncalls < MaxCalls
    /\ rxn_network # NoGraph
    /\ last' = <<"set_starters">>
    /\ ncalls' = ncalls + 1
    /\ UNCHANGED <<max_num_components, all_combos, balanced, all_targets, selected_target,
                   cost_function, most_negative_rxn, complex_loopback, impl, nbuilds, netVars, yenVars, callVars>>
    /\ LET g1 == relink_starters(rxn_network, sts)
       IN IF complex_loopback # Some(TRUE)
          THEN rxn_network' = g1 /\ starters' = Some(sts) /\ outcome' = "ok"
          ELSE IF ~(old_loopbacks \subseteq DOMAIN g1.edges)
          THEN \* remove_edge raises NetworkXError on a missing edge
               rxn_network' = g1 /\ starters' = starters /\ outcome' = "networkx_error"
          ELSE /\ rxn_network' = add_edges0(remove_edges(g1, old_loopbacks), new_loopbacks(sts))
               /\ starters' = Some(sts)
               /\ outcome' = "ok"

\* ------------------------------------------------------ set_target (core.py)
target_node(gr) == {n \in gr.nodes : n.description = "Target"}

core_set_target(t) ==
    /\ impl = "core"
    /\ ncalls < MaxCalls
    /\ rxn_network # NoGraph
    /\ last' = <<"set_target">>
    /\ ncalls' = ncalls + 1
    /\ outcome' = "ok"
    /\ UNCHANGED <<max_num_components, all_combos, balanced, starters, all_targets,
                   cost_function, most_negative_rxn, complex_loopback, impl, nbuilds, netVars, yenVars, callVars>>
    /\ IF t \in SeqToSet(selected_target[1])
       THEN UNCHANGED <<rxn_network, selected_target>>
       ELSE /\ selected_target' = Some(<<t>>)
            /\ IF target_node(rxn_network) = {}
               THEN UNCHANGED rxn_network
               ELSE LET node == CHOOSE n \in target_node(rxn_network) : TRUE
                        g1 == remove_node(rxn_network, node)
                    IN rxn_network' = add_edges0(g1,
                         {<<RxnEntries(P, "p"), RxnEntries({t}, "t")>> :
                             P \in {x \in SeqToSet(all_combos) : {t} \subseteq x}})


\* ------------------------------------------- find_combined_paths (core.py)
\* the test a CombinedPathway passes before it is returned: with the entries
\* common to both sides of its net reaction removed, the reactants are the
\* starters and the products hold every target
valid_combined(cp, targets) ==
    LET common == cp.reactants \cap cp.products
    IN /\ SeqToSet(targets) \subseteq (cp.products \ common)
       /\ starters[1] = cp.reactants \ common

\* find_combined_paths(k, targets): for the first target, set_target([target])
\* hands set_target a list: the list is not among the stored entries, so it is
\* wrapped again and stored, the Target node is removed, and set(target) of a
\* list holding a list raises TypeError. With no target the loops have nothing
\* to go through and the empty list is returned. (Called on a network whose
\* selected target is a list of entries.)
find_combined_paths(targets) ==
    /\ impl = "core"
    /\ ncalls < MaxCalls
    /\ rxn_network # NoGraph
    /\ outcome # "type_error"
    /\ last' = <<"find_combined_paths">>
    /\ ncalls' = ncalls + 1
    /\ UNCHANGED <<max_num_components, all_combos, balanced, starters, all_targets,
                   cost_function, most_negative_rxn, complex_loopback, impl, nbuilds,
                   netVars, yenVars>>
    /\ call_args' = [targets |-> targets]
    /\ IF targets = <<>>
       THEN /\ outcome' = "ok"
            /\ call_result' = Some(<<>>)
            /\ UNCHANGED <<rxn_network, selected_target>>
       ELSE /\ outcome' = "type_error"
            /\ call_result' = None
            /\ selected_target' = Some(<<<<targets[1]>>>>)
            /\ IF target_node(rxn_network) = {}
               THEN UNCHANGED rxn_network
               ELSE rxn_network' = remove_node(rxn_network,
                                       CHOOSE n \in target_node(rxn_network) : TRUE)

\* ================================================== yens_ksp (network.py)
\* get_edge_weight(edge_obj, cf): 0.0 on a structural edge, cf.evaluate(rxn) on a
\* reaction (the external cost function: the reaction's cost)
get_edge_weight(edge_obj) ==
    IF edge_obj \in {loopback_edge, precursor_edge, target_edge} THEN 0 ELSE edge_obj.cost

\* the edges of gr from u to v
edges_between(gr, u, v) == {e \in DOMAIN gr.edges : e.src = u /\ e.dst = v}
has_edge(gr, u, v) == edges_between(gr, u, v) # {}

\* g.get_edge_data(u, v) (parallel edges carry the same payload)
get_edge_data(gr, u, v) == (CHOOSE e \in edges_between(gr, u, v) : TRUE).data

\* g.remove_edge(u, v): one edge from u to v goes
remove_edge(gr, u, v) ==
    LET e == CHOOSE x \in edges_between(gr, u, v) : TRUE
    IN [gr EXCEPT !.edges = @ (-) SetToBag({e})]

\* path_cost(nodes)
RECURSIVE path_cost(_, _)
path_cost(gr, nodes) ==
    IF Len(nodes) <= 1 THEN 0
    ELSE get_edge_weight(get_edge_data(gr, nodes[1], nodes[2])) + path_cost(gr, Tail(nodes))

\* the cheapest edge weight from u to v, as weight_fn sees the parallel edges
min_weight(gr, u, v) ==
    LET ws == {get_edge_weight(e.data) : e \in edges_between(gr, u, v)}
    IN CHOOSE w \in ws : \A x \in ws : w <= x

RECURSIVE walk_cost(_, _)
walk_cost(gr, nodes) ==
    IF Len(nodes) <= 1 THEN 0
    ELSE min_weight(gr, nodes[1], nodes[2]) + walk_cost(gr, Tail(nodes))

\* the simple paths of gr from u to t that avoid the nodes of seen
RECURSIVE simple_paths(_, _, _, _)
simple_paths(gr, u, t, seen) ==
    IF u = t THEN {<<t>>}
    ELSE UNION {{<<u>> \o p : p \in simple_paths(gr, v, t, seen \cup {u})} :
                  v \in {x \in (1..Len(gr.nodes)) \ (seen \cup {u}) : has_edge(gr, u, x)}}

\* rx.dijkstra_shortest_paths(g, source, target, weight_fn)[target]: the paths it may
\* return, a cheapest path of the graph (which one among equals is rustworkx's
\* choice); no path when the target is unreachable or is the source
dijkstra_shortest_paths(gr, source, t) ==
    IF source = t THEN {}
    ELSE LET ps == simple_paths(gr, source, t, {})
         IN {p \in ps : \A q \in ps : walk_cost(gr, p) <= walk_cost(gr, q)}

\* lines 478-486: the edges removed for spur index i0 (0-based), path by path
RECURSIVE remove_for_spur(_, _, _, _, _)
remove_for_spur(gr, removed, paths, root_path, i0) ==
    IF paths = <<>> THEN [g |-> gr, removed_edges |-> removed]
    ELSE LET path == Head(paths)
         IN IF Len(path) - 1 > i0 /\ root_path = SubSeq(path, 1, i0)
               /\ has_edge(gr, path[i0 + 1], path[i0 + 2])
            THEN remove_for_spur(remove_edge(gr, path[i0 + 1], path[i0 + 2]),
                                 Append(removed, [src |-> path[i0 + 1], dst |-> path[i0 + 2],
                                                  data |-> get_edge_data(gr, path[i0 + 1], path[i0 + 2])]),
                                 Tail(paths), root_path, i0)
            ELSE remove_for_spur(gr, removed, Tail(paths), root_path, i0)

\* (mutant) an edge removed for two accepted paths is put back once
add_edges_once(gr, es) == [gr EXCEPT !.edges = @ (+) SetToBag(SeqToSet(es))]

\* g.add_edges_from(removed_edges)
add_edges_from(gr, es) == [gr EXCEPT !.edges = @ (+) SeqToBag(es)]

\* the order of the tuples (cost, path) in the PriorityQueue
RECURSIVE list_less(_, _)
list_less(x, y) ==
    IF x = <<>> THEN y # <<>>
    ELSE IF y = <<>> THEN FALSE
    ELSE IF Head(x) # Head(y) THEN Head(x) < Head(y)
    ELSE list_less(Tail(x), Tail(y))
\* (mutant) equal costs ordered by the larger path first
tuple_less_rev(x, y) == x[1] < y[1] \/ (x[1] = y[1] /\ list_less(y[2], x[2]))
tuple_less(x, y) == x[1] < y[1] \/ (x[1] = y[1] /\ list_less(x[2], y[2]))

\* (mutant) the "if path_ not in a" test left out
RECURSIVE pop_loop_any(_, _, _, _)
pop_loop_any(q, acc, costs, dropped) ==
    IF q = EmptyBag THEN [b |-> q, a |-> acc, a_costs |-> costs, discarded |-> dropped]
    ELSE LET top == CHOOSE x \in DOMAIN q : \A y \in DOMAIN q : x = y \/ tuple_less(x, y)
         IN [b |-> q (-) SetToBag({top}), a |-> Append(acc, top[2]),
             a_costs |-> Append(costs, top[1]), discarded |-> dropped]

\* lines 499-507: pop until a path not yet accepted comes, or the queue is empty
RECURSIVE pop_loop(_, _, _, _)
pop_loop(q, acc, costs, dropped) ==
    IF q = EmptyBag THEN [b |-> q, a |-> acc, a_costs |-> costs, discarded |-> dropped]
    ELSE LET top == CHOOSE x \in DOMAIN q : \A y \in DOMAIN q : x = y \/ tuple_less(x, y)
             rest == q (-) SetToBag({top})
         IN IF top[2] \notin SeqToSet(acc)
            THEN [b |-> rest, a |-> Append(acc, top[2]), a_costs |-> Append(costs, top[1]),
                  discarded |-> dropped]
            ELSE pop_loop(rest, acc, costs, dropped + 1)

\* (mutant) "if not path: return []" left out: the search goes on into the loop
yens_start_on ==
    /\ pc = "start"
    /\ LET first == dijkstra_shortest_paths(yen_in.g, yen_in.precursors_node, yen_in.target_node)
       IN IF first = {}
          THEN UNCHANGED <<a_list, a_costs>>
          ELSE \E path \in first : a_list' = <<path>> /\ a_costs' = <<path_cost(yen_in.g, path)>>
    /\ pc' = "loop"
    /\ yg' = yen_in.g
    /\ b_queue' = EmptyBag
    /\ b_pushed' = <<>>
    /\ k_iter' = 1
    /\ UNCHANGED <<yen_in, i_spur, reported, discarded, netVars, coreVars, ctlVars, callVars>>

\* lines 449-461: the first path
yens_start ==
    /\ pc = "start"
    /\ LET first == dijkstra_shortest_paths(yen_in.g, yen_in.precursors_node, yen_in.target_node)
       IN IF first = {}
          THEN /\ pc' = "done"
               /\ UNCHANGED <<a_list, a_costs>>
          ELSE /\ \E path \in first : a_list' = <<path>> /\ a_costs' = <<path_cost(yen_in.g, path)>>
               /\ pc' = "loop"
    /\ yg' = yen_in.g
    /\ b_queue' = EmptyBag
    /\ b_pushed' = <<>>
    /\ k_iter' = 1
    /\ UNCHANGED <<yen_in, i_spur, reported, discarded, netVars, coreVars, ctlVars, callVars>>

\* lines 465-470: the head of "for k in range(1, num_k)"
yens_next_k ==
    /\ pc = "loop"
    /\ IF k_iter >= yen_in.num_k
       THEN pc' = "done" /\ UNCHANGED <<i_spur, reported>>
       ELSE IF Len(a_list) < k_iter
       THEN pc' = "done" /\ reported' = TRUE /\ UNCHANGED i_spur
       ELSE pc' = "spur" /\ i_spur' = 0 /\ UNCHANGED reported
    /\ UNCHANGED <<yen_in, yg, a_list, a_costs, b_queue, b_pushed, k_iter, discarded, netVars, coreVars, ctlVars, callVars>>

\* lines 472-497: one spur node of prev_path
yens_spur ==
    /\ pc = "spur"
    /\ i_spur < Len(a_list[k_iter]) - 1
    /\ LET prev_path == a_list[k_iter]
           spur_node == prev_path[i_spur + 1]
           root_path == SubSeq(prev_path, 1, i_spur)
           cut == remove_for_spur(yg, <<>>, a_list, root_path, i_spur)
           spur_paths == dijkstra_shortest_paths(cut.g, spur_node, yen_in.target_node)
           restored == add_edges_from(cut.g, cut.removed_edges)
       IN /\ yg' = restored
          /\ IF spur_paths = {}
             THEN UNCHANGED <<b_queue, b_pushed>>
             ELSE \E spur_path \in spur_paths :
                    LET total_path == root_path \o spur_path
                        item == <<path_cost(restored, total_path), total_path>>
                    IN /\ b_queue' = b_queue (+) SetToBag({item})
                       /\ b_pushed' = Append(b_pushed, item)
    /\ i_spur' = i_spur + 1
    /\ UNCHANGED <<yen_in, a_list, a_costs, k_iter, pc, reported, discarded, netVars, coreVars, ctlVars, callVars>>

\* lines 499-507: accept the cheapest candidate not accepted yet
yens_pop ==
    /\ pc = "spur"
    /\ i_spur >= Len(a_list[k_iter]) - 1
    /\ LET res == pop_loop(b_queue, a_list, a_costs, discarded)
       IN /\ b_queue' = res.b /\ a_list' = res.a /\ a_costs' = res.a_costs
          /\ discarded' = res.discarded
    /\ k_iter' = k_iter + 1
    /\ pc' = "loop"
    /\ UNCHANGED <<yen_in, yg, b_pushed, i_spur, reported, netVars, coreVars, ctlVars, callVars>>

yens_next == yens_start \/ yens_next_k \/ yens_spur \/ yens_pop

\* (mutant) the edges that enter the Reactants nodes are recorded instead
RECURSIVE path_from_graph_reactants(_, _, _)
path_from_graph_reactants(gr, path, step) ==
    IF step > Len(path) THEN [reactions |-> <<>>, costs |-> <<>>]
    ELSE LET rest == path_from_graph_reactants(gr, path, step + 1)
         IN IF gr.nodes[path[step]].description = "Reactants"
            THEN LET e == get_edge_data(gr, path[IF step = 1 THEN Len(path) ELSE step - 1], path[step])
                 IN [reactions |-> <<e>> \o rest.reactions,
                     costs |-> <<get_edge_weight(e)>> \o rest.costs]
            ELSE rest

\* _path_from_graph(g, path, cf): the reactions on the edges that enter the Products
\* nodes of the path, and their costs
RECURSIVE path_from_graph(_, _, _)
path_from_graph(gr, path, step) ==
    IF step > Len(path) THEN [reactions |-> <<>>, costs |-> <<>>]
    ELSE LET rest == path_from_graph(gr, path, step + 1)
         IN IF gr.nodes[path[step]].description = "Products"
            THEN LET e == get_edge_data(gr, path[IF step = 1 THEN Len(path) ELSE step - 1], path[step])
                 IN [reactions |-> <<e>> \o rest.reactions,
                     costs |-> <<get_edge_weight(e)>> \o rest.costs]
            ELSE rest

\* _k_shortest_paths(k): a BasicPathway for every path yens_ksp returned
k_shortest_paths == [x \in 1..Len(a_list) |-> path_from_graph(yen_in.g, a_list[x], 1)]

\* ---------------------------------------------------------------- Init/Next
\* the subsets of S with at most n elements
RECURSIVE SubsetsUpTo(_, _)
SubsetsUpTo(S, n) == IF n = 0 THEN {{}}
                     ELSE LET prev == SubsetsUpTo(S, n - 1)
                          IN prev \cup {x \cup {a} : x \in prev, a \in S}

\* balancers: at most n balanced pairs among `pairs`, energies among `energies`
Balancers(pairs, energies, n) ==
    {B \in SubsetsUpTo({[reactant_entries |-> x[1], product_entries |-> x[2], energy |-> e] :
                            x \in pairs, e \in energies}, n) :
        \A a, b \in B : (a.reactant_entries = b.reactant_entries
                         /\ a.product_entries = b.product_entries) => a = b}

AllCombos == Combos(AllEntries, MaxSide)
PrecursorInputs == {ps \in SUBSET AllEntries : Cardinality(ps) <= MaxSide}
TargetLists == {<<t>> : t \in AllEntries}
MaxTargets == 2
PathwayTargets == UNION {[1..n -> AllEntries] : n \in 1..MaxTargets}
CostFunctions == {"softplus", "bipartite", "rectified", "arrhenius", "enthalpies_positive", "unknown"}

NetIdle ==
    /\ rxns = <<>>
    /\ g = NoGraph
    /\ precursors = None
    /\ target = None

CoreIdle ==
    /\ max_num_components = 0
    /\ all_combos = <<>>
    /\ balanced = {}
    /\ rxn_network = NoGraph
    /\ starters = None
    /\ all_targets = None
    /\ selected_target = None
    /\ cost_function = None
    /\ complex_loopback = None
    /\ most_negative_rxn = Inf

YenIdle ==
    /\ yen_in = [none |-> TRUE]
    /\ yg = NoGraph
    /\ a_list = <<>>
    /\ a_costs = <<>>
    /\ b_queue = EmptyBag
    /\ b_pushed = <<>>
    /\ k_iter = 0
    /\ i_spur = 0
    /\ pc = "idle"
    /\ reported = FALSE
    /\ discarded = 0

CallIdle ==
    /\ call_args = [none |-> TRUE]
    /\ call_result = None

CtlInit(m) ==
    /\ impl = m
    /\ outcome = "ok"
    /\ last = <<"init">>
    /\ ncalls = 0
    /\ nbuilds = 0

\* ReactionNetwork(rxns) of network.py
NetInit ==
    /\ CtlInit("network")
    /\ rxns \in RxnSeqs
    /\ g = NoGraph
    /\ precursors = None
    /\ target = None
    /\ CoreIdle
    /\ YenIdle
    /\ CallIdle

\* ReactionNetwork(entries, max_num_components) of core.py
CoreInit(balancers) ==
    /\ CtlInit("core")
    /\ max_num_components \in 1..MaxSide
    /\ all_combos = generate_all_combos(list_of(AllEntries), max_num_components)
    /\ balanced \in balancers
    /\ rxn_network = NoGraph
    /\ starters = None
    /\ all_targets = None
    /\ selected_target = None
    /\ cost_function = None
    /\ complex_loopback = None
    /\ most_negative_rxn = Inf
    /\ NetIdle
    /\ YenIdle
    /\ CallIdle

NetNext ==
    \/ build
    \/ \E ps \in PrecursorInputs : set_precursors(ps)
    \/ \E t \in AllEntries : set_target(t)
    \/ \E targets \in PathwayTargets : find_pathways(targets)

CoreNext ==
    \/ \E sts \in AllCombos, ts \in TargetLists, cl \in BOOLEAN :
          generate_rxn_network(sts, ts, "softplus", cl)
    \/ \E sts \in AllCombos : set_starters(sts)
    \/ \E t \in AllEntries : core_set_target(t)

\* Spec: either builder, driven through its linking operations
Init == NetInit \/ CoreInit(Balancers(AllCombos \X AllCombos, {0}, MaxBalanced))
Next == NetNext \/ CoreNext
Spec == Init /\ [][Next]_vars

\* SpecCost: the core.py builder under every cost function
MaxNegEnergy == 2
MaxPosEnergy == 1
Energies == (-MaxNegEnergy)..MaxPosEnergy
SamePairs == {x \in AllCombos \X AllCombos : x[1] # x[2] /\ elems_of(x[1]) = elems_of(x[2])}
CostPairs == {x \in SamePairs : x[1] = {1, 2}}
CostInit == CoreInit(Balancers(CostPairs, Energies, MaxRxns))
CostNext ==
    \/ \E cf \in CostFunctions : generate_rxn_network({1}, <<NumEntries>>, cf, FALSE)
    \/ \E cf \in CostFunctions : set_cost_function(cf)
SpecCost == CostInit /\ [][CostNext]_vars

\* SpecConfig: the core.py builder constructed with any max_num_components, the
\* values below 1 included (__init__ stores the value and the combinations
\* generate_all_combos gives for it, without a test)
ConfigInit ==
    /\ CtlInit("core")
    /\ max_num_components \in (-1)..MaxSide
    /\ all_combos = generate_all_combos(list_of(AllEntries), max_num_components)
    /\ balanced \in Balancers(CostPairs, {0}, MaxBalanced)
    /\ rxn_network = NoGraph
    /\ starters = None
    /\ all_targets = None
    /\ selected_target = None
    /\ cost_function = None
    /\ complex_loopback = None
    /\ most_negative_rxn = Inf
    /\ NetIdle
    /\ YenIdle
    /\ CallIdle
SpecConfig == ConfigInit /\ [][CoreNext]_vars

\* SpecCombined: the core.py builder, generated and asked for combined pathways
CombinedNext ==
    \/ \E sts \in AllCombos, ts \in TargetLists, cl \in BOOLEAN :
          generate_rxn_network(sts, ts, "softplus", cl)
    \/ \E targets \in {<<>>} \cup TargetLists : find_combined_paths(targets)
SpecCombined == CoreInit(Balancers(AllCombos \X AllCombos, {0}, MaxBalanced))
                   /\ [][CombinedNext]_vars

\* SpecYen: yens_ksp on the graphs of at most NumNodes nodes and MaxEdges edges,
\* node 1 the Precursors node (no edge enters it), node NumNodes the Target
\* node (no edge leaves it)
MaxMult == 2
CandidatePairs == {x \in (1..NumNodes) \X (1..NumNodes) :
                      x[1] # x[2] /\ x[2] # 1 /\ x[1] # NumNodes}
Min(x, y) == IF x <= y THEN x ELSE y
RECURSIVE edge_bags(_, _)
edge_bags(pairs, budget) ==
    IF pairs = {} \/ budget = 0 THEN {EmptyBag}
    ELSE LET p == CHOOSE x \in pairs : TRUE
         IN edge_bags(pairs \ {p}, budget)
            \cup UNION {{B (+) ([src |-> p[1], dst |-> p[2], data |-> [cost |-> w]] :> m) :
                           B \in edge_bags(pairs \ {p}, budget - m)} :
                        <<w, m>> \in (0..MaxWeight) \X (1..Min(MaxMult, budget))}
yen_nodes == [n \in 1..NumNodes |->
                 NetworkEntry({}, IF n = 1 THEN "Precursors"
                                  ELSE IF n = NumNodes THEN "Target"
                                  ELSE IF n % 2 = 0 THEN "Reactants" ELSE "Products")]
YenInit ==
    /\ CtlInit("yens")
    /\ \E es \in edge_bags(CandidatePairs, MaxEdges), nk \in 1..MaxK :
          yen_in = [g |-> [nodes |-> yen_nodes, edges |-> es], num_k |-> nk,
                    precursors_node |-> 1, target_node |-> NumNodes]
    /\ yg = NoGraph
    /\ a_list = <<>>
    /\ a_costs = <<>>
    /\ b_queue = EmptyBag
    /\ b_pushed = <<>>
    /\ k_iter = 0
    /\ i_spur = 0
    /\ pc = "start"
    /\ reported = FALSE
    /\ discarded = 0
    /\ NetIdle
    /\ CoreIdle
    /\ CallIdle
SpecYen == YenInit /\ [][yens_next]_vars

\* SpecCombos: the static helper generate_all_combos called on a list of distinct
\* entries and a maximum size
RECURSIVE DistinctLists(_)
DistinctLists(S) == {<<>>} \cup UNION {{<<x>> \o l : l \in DistinctLists(S \ {x})} : x \in S}
call_generate_all_combos ==
    /\ impl = "combos"
    /\ call_result = None
    /\ call_result' = Some(generate_all_combos(call_args.entries, call_args.max_num_combos))
    /\ UNCHANGED <<call_args, netVars, coreVars, yenVars, ctlVars>>
CombosInit ==
    /\ CtlInit("combos")
    /\ \E es \in DistinctLists(AllEntries), m \in 0..NumEntries :
          call_args = [entries |-> es, max_num_combos |-> m]
    /\ call_result = None
    /\ NetIdle
    /\ CoreIdle
    /\ YenIdle
SpecCombos == CombosInit /\ [][call_generate_all_combos]_vars

\* ================================================================ claims
is_rxn(data) == data \notin {loopback_edge, precursor_edge, target_edge}
count_nodes(gr, description) ==
    Cardinality({i \in 1..Len(gr.nodes) : gr.nodes[i].description = description})

\* the Reactants/Products nodes (with their indices) and the reaction edges
net_rxn_part(gr) ==
    [nodes |-> {<<i, gr.nodes[i]>> : i \in {j \in 1..Len(gr.nodes) :
                    gr.nodes[j].description \in {"Reactants", "Products"}}},
     edges |-> RestrictBag(gr.edges, {e \in DOMAIN gr.edges : is_rxn(e.data)})]
core_rxn_part(gr) ==
    [nodes |-> {n \in gr.nodes : n.description \in {"Reactants", "Products"}},
     edges |-> [e \in {x \in DOMAIN gr.edges : gr.edges[x].rxn # None} |-> gr.edges[e]]]

\* C1: whatever set_precursors / set_starters / set_target calls were made, the
\* Reactants and Products nodes and the reaction edges (with their reactions) are
\* those of a full rebuild with the precursors and target now in force.
C1_RxnPartFrame ==
    /\ (impl = "network" /\ g # NoGraph) => net_rxn_part(g) = net_rxn_part(build_graph(rxns))
    /\ (impl = "core" /\ rxn_network # NoGraph) =>
          core_rxn_part(rxn_network) =
          core_rxn_part(generated_graph(starters[1], SeqToSet(selected_target[1]),
                                        cost_function[1], complex_loopback[1]))

\* a loopback edge present three times: build() and two re-linking set_precursors
relinked_twice == /\ impl = "network" /\ g # NoGraph
                  /\ \E e \in DOMAIN g.edges : e.data = loopback_edge /\ g.edges[e] >= 3

C1_Witness ==
    /\ relinked_twice
    /\ count_nodes(g, "Precursors") = 1
    /\ last = <<"set_precursors">> /\ outcome = "ok"
    /\ target # None
    /\ \E e \in DOMAIN g.edges : is_rxn(e.data)

\* C2: every loopback edge Products(P) -> Reactants(R) has R = P in simple mode
\* (network.py before any precursors are set) and R a subset of P united with the
\* precursors now in force in complex mode.
C2_LoopbackTargets ==
    /\ (impl = "network" /\ g # NoGraph) =>
          \A e \in DOMAIN g.edges : e.data = loopback_edge =>
             IF precursors = None
             THEN g.nodes[e.dst].entries = g.nodes[e.src].entries
             ELSE g.nodes[e.dst].entries \subseteq (g.nodes[e.src].entries \cup precursors[1])
    /\ (impl = "core" /\ rxn_network # NoGraph) =>
          \A e \in DOMAIN rxn_network.edges :
             (e[1].description = "Products" /\ e[2].description = "Reactants") =>
                IF complex_loopback[1]
                THEN e[2].entries \subseteq (e[1].entries \cup starters[1])
                ELSE e[2].entries = e[1].entries

\* C3: the graph holds at most one Precursors node and at most one Target node,
\* and exactly one of each once set_precursors / set_target has succeeded on the
\* graph of the (single) build.
C3_Singletons ==
    /\ (impl = "network" /\ g # NoGraph) =>
          /\ count_nodes(g, "Precursors") <= 1
          /\ count_nodes(g, "Target") <= 1
          /\ (nbuilds = 1 /\ precursors # None) => count_nodes(g, "Precursors") = 1
          /\ (nbuilds = 1 /\ target # None) => count_nodes(g, "Target") = 1
    /\ (impl = "core" /\ rxn_network # NoGraph) =>
          /\ Cardinality(starters_node(rxn_network)) = 1
          /\ Cardinality(target_node(rxn_network)) = 1

\* the loopback edges Products(P) -> Reactants(R) of the core.py graph, as (P, R)
core_loopbacks(gr) ==
    {<<e[1].entries, e[2].entries>> :
        e \in {x \in DOMAIN gr.edges : x[1].description = "Products" /\ x[2].description = "Reactants"
                                        /\ gr.edges[x] = [weight |-> Num(0), rxn |-> None]}}
net_has_loopback(gr, n1, n2) ==
    \E e \in DOMAIN gr.edges : e.src = n1 /\ e.dst = n2 /\ e.data = loopback_edge
                               /\ get_edge_weight(e.data) = 0
products_of(gr) == {j \in 1..Len(gr.nodes) : gr.nodes[j].description = "Products"}
reactants_of(gr) == {j \in 1..Len(gr.nodes) : gr.nodes[j].description = "Reactants"}
\* set_precursors returned on a graph that is linked for the stored precursors
relinked_ok ==
    /\ impl = "network" /\ last = <<"set_precursors">> /\ outcome \in {"ok", "unchanged"}
    /\ \E j \in 1..Len(g.nodes) : g.nodes[j] = NetworkEntry(precursors[1], "Precursors")
restarted_ok == last = <<"set_starters">> /\ outcome = "ok" /\ impl = "core"

\* C9 (as stated): after set_precursors(p2) every Products node P has a zero-weight
\* loopback edge to every Reactants node R drawn from P united with p2, R = P and
\* R made only of precursors included; simple loopback gives the single edge P -> P.
C9_AllLoopbacksRegenerated ==
    /\ relinked_ok =>
          \A n1 \in products_of(g), n2 \in reactants_of(g) :
             g.nodes[n2].entries \subseteq (g.nodes[n1].entries \cup precursors[1])
                => net_has_loopback(g, n1, n2)
    /\ restarted_ok =>
          core_loopbacks(rxn_network) =
             {<<P, R>> \in SeqToSet(all_combos) \X SeqToSet(all_combos) :
                 IF complex_loopback[1] THEN R \subseteq (P \cup starters[1]) ELSE R = P}

\* C9 (amended): after set_precursors(p2) of network.py every Products node P has a
\* zero-weight loopback edge to every Reactants node R drawn from P united with p2
\* that is not made only of precursors, and to R = P; set_starters of core.py
\* regenerates the edge to every combination drawn from P united with p2 (complex
\* loopback) or keeps the single edge P -> P (simple loopback).
C9_LoopbacksRegenerated ==
    /\ relinked_ok =>
          \A n1 \in products_of(g), n2 \in reactants_of(g) :
             (/\ g.nodes[n2].entries \subseteq (g.nodes[n1].entries \cup precursors[1])
              /\ (~(g.nodes[n2].entries \subseteq precursors[1])
                    \/ g.nodes[n2].entries = g.nodes[n1].entries))
                => net_has_loopback(g, n1, n2)
    /\ restarted_ok =>
          core_loopbacks(rxn_network) =
             {<<P, R>> \in SeqToSet(all_combos) \X SeqToSet(all_combos) :
                 IF complex_loopback[1] THEN R \subseteq (P \cup starters[1]) ELSE R = P}

\* set_precursors(p2) after set_precursors(p1): a Products node got a loopback edge
\* to a Reactants node that mixes its own entries with precursors of p2
C9_Witness ==
    /\ relinked_ok /\ relinked_twice /\ count_nodes(g, "Precursors") = 1
    /\ \E n1 \in products_of(g), n2 \in reactants_of(g) :
          /\ net_has_loopback(g, n1, n2)
          /\ g.nodes[n2].entries # g.nodes[n1].entries
          /\ g.nodes[n2].entries \cap precursors[1] # {}
          /\ g.nodes[n2].entries \cap g.nodes[n1].entries # {}

\* the weights of the reaction edges of the core.py graph
rxn_weights(gr) == [e \in {x \in DOMAIN gr.edges : gr.edges[x].rxn # None} |-> gr.edges[e].weight]
built_weights == rxn_weights(generated_graph(starters[1], SeqToSet(selected_target[1]),
                                             cost_function[1], complex_loopback[1]))

\* C10: set_cost_function(c), c the cost function of the build, called on weights
\* that are those of the build, leaves every reaction edge weight as the build
\* left it (so it does after any number of such calls).
C10_CostIdempotent ==
    [][(/\ impl = "core" /\ rxn_network # NoGraph
        /\ rxn_weights(rxn_network) = built_weights
        /\ ncalls' = ncalls + 1
        /\ last' = <<"set_cost_function", cost_function[1]>>)
       => rxn_weights(rxn_network') = rxn_weights(rxn_network)]_vars

\* ------------------------------------------------------ yens_ksp claims
yens_returned == impl = "yens" /\ pc = "done"
is_loopless(path) == \A x, y \in 1..Len(path) : x # y => path[x] # path[y]
follows_edges(gr, path) == \A x \in 1..(Len(path) - 1) : has_edge(gr, path[x], path[x + 1])
\* the loopless paths from the Precursors node to the Target node
loopless_paths == simple_paths(yen_in.g, yen_in.precursors_node, yen_in.target_node, {})
\* the n-th smallest cost over a set of paths (n >= 1)
RECURSIVE nth_cost(_, _)
nth_cost(ps, n) ==
    LET p == CHOOSE x \in ps : \A y \in ps : walk_cost(yen_in.g, x) <= walk_cost(yen_in.g, y)
    IN IF n = 1 THEN walk_cost(yen_in.g, p) ELSE nth_cost(ps \ {p}, n - 1)

\* C4: the returned paths are in non-decreasing order of total cost.
C4_SortedByCost ==
    yens_returned =>
       \A x \in 1..(Len(a_list) - 1) :
          path_cost(yen_in.g, a_list[x]) <= path_cost(yen_in.g, a_list[x + 1])

\* C5: every returned path starts at the Precursors node, ends at the Target node,
\* follows edges of the graph and visits no node twice.
C5_Loopless ==
    yens_returned =>
       \A x \in 1..Len(a_list) :
          /\ a_list[x][1] = yen_in.precursors_node
          /\ a_list[x][Len(a_list[x])] = yen_in.target_node
          /\ follows_edges(yen_in.g, a_list[x])
          /\ is_loopless(a_list[x])

\* C6: with J loopless paths from the Precursors node to the Target node,
\* exactly min(num_k, J) paths are returned.
C6_ReturnsMinKJ ==
    yens_returned => Len(a_list) = Min(yen_in.num_k, Cardinality(loopless_paths))

\* C7: the cost of the i-th returned path is the i-th smallest cost over all the
\* loopless paths from the Precursors node to the Target node.
C7_KLowestCost ==
    yens_returned =>
       /\ Len(a_list) <= Cardinality(loopless_paths)
       /\ \A x \in 1..Len(a_list) :
             path_cost(yen_in.g, a_list[x]) = nth_cost(loopless_paths, x)

\* C8: no two returned paths are the same node sequence.
C8_NoDuplicatePaths ==
    impl = "yens" => \A x, y \in 1..Len(a_list) : x # y => a_list[x] # a_list[y]


\* the search ended after dropping a candidate it had already accepted
C8_Witness == yens_returned /\ discarded > 0 /\ Len(a_list) >= 2

\* C11: every edge weight of the core.py graph is >= 0, after the build and after
\* any sequence of set_cost_function calls (softplus and arrhenius values are
\* positive at every energy).
C11_NonNegativeWeights ==
    (impl = "core" /\ rxn_network # NoGraph) =>
       \A e \in DOMAIN rxn_network.edges : ~is_negative(rxn_network.edges[e].weight)

\* C12: there is an edge Precursors -> Reactants(R) if and only if R is a subset of
\* the precursors now in force; every edge that leaves a Precursors (Starters) node
\* leaves the node of the precursors now in force, enters a Reactants node, has
\* weight 0 and carries no reaction.
C12_PrecursorEdges ==
    /\ (impl = "network" /\ g # NoGraph /\ precursors # None) =>
          /\ \A r \in reactants_of(g) :
                (g.nodes[r].entries \subseteq precursors[1])
                   <=> \E e \in DOMAIN g.edges :
                          e.dst = r /\ g.nodes[e.src] = NetworkEntry(precursors[1], "Precursors")
          /\ \A e \in DOMAIN g.edges :
                g.nodes[e.src].description = "Precursors" =>
                   /\ g.nodes[e.src].entries = precursors[1]
                   /\ g.nodes[e.dst].description = "Reactants"
                   /\ e.data = precursor_edge /\ get_edge_weight(e.data) = 0
    /\ (impl = "core" /\ rxn_network # NoGraph) =>
          /\ \A R \in SeqToSet(all_combos) :
                (R \subseteq starters[1])
                   <=> <<RxnEntries(starters[1], "s"), RxnEntries(R, "r")>> \in DOMAIN rxn_network.edges
          /\ \A e \in DOMAIN rxn_network.edges :
                e[1].description = "Starters" =>
                   /\ e[1].entries = starters[1]
                   /\ e[2].description = "Reactants"
                   /\ rxn_network.edges[e] = [weight |-> Num(0), rxn |-> None]

\* C13: there is an edge Products(P) -> Target if and only if P holds the target
\* now in force; every edge that enters a Target node enters the node of the
\* target now in force, leaves a Products node, has weight 0 and carries no
\* reaction.
C13_TargetEdges ==
    /\ (impl = "network" /\ g # NoGraph /\ target # None) =>
          /\ \A q \in products_of(g) :
                (target[1] \in g.nodes[q].entries)
                   <=> \E e \in DOMAIN g.edges :
                          e.src = q /\ g.nodes[e.dst] = NetworkEntry({target[1]}, "Target")
          /\ \A e \in DOMAIN g.edges :
                g.nodes[e.dst].description = "Target" =>
                   /\ g.nodes[e.dst].entries = {target[1]}
                   /\ g.nodes[e.src].description = "Products"
                   /\ e.data = target_edge /\ get_edge_weight(e.data) = 0
    /\ (impl = "core" /\ rxn_network # NoGraph) =>
          LET tgt == SeqToSet(selected_target[1])
          IN /\ \A P \in SeqToSet(all_combos) :
                   (tgt \subseteq P)
                      <=> <<RxnEntries(P, "p"), RxnEntries(tgt, "t")>> \in DOMAIN rxn_network.edges
             /\ \A e \in DOMAIN rxn_network.edges :
                   e[2].description = "Target" =>
                      /\ e[2].entries = tgt
                      /\ e[1].description = "Products"
                      /\ rxn_network.edges[e] = [weight |-> Num(0), rxn |-> None]

\* C14: when no path leads from the Precursors node to the Target node the search
\* ends with its first Dijkstra call, whatever num_k is: no path is accepted, the
\* list of pathways is empty and nothing is reported.
C14_EmptyWhenNoPath ==
    (impl = "yens" /\ loopless_paths = {}) =>
       /\ pc \in {"start", "done"}
       /\ a_list = <<>>
       /\ k_shortest_paths = <<>>
       /\ reported = FALSE

\* the search returned on a graph that has edges out of the Precursors node and
\* into the Target node, but no path between them, asked for several paths
C14_Witness ==
    /\ yens_returned /\ loopless_paths = {} /\ yen_in.num_k > 1
    /\ \E e \in DOMAIN yen_in.g.edges : e.src = yen_in.precursors_node
    /\ \E e \in DOMAIN yen_in.g.edges : e.dst = yen_in.target_node

\* C15: whenever the search returns fewer paths than num_k asked for, and at least
\* one, it has reported the shortfall ("Identified only k=... paths").
C15_ShortfallReported ==
    (yens_returned /\ 1 <= Len(a_list) /\ Len(a_list) < yen_in.num_k) => reported

\* the binomial coefficient C(n, k)
RECURSIVE choose(_, _)
choose(n, k) == IF k = 0 THEN 1 ELSE IF n = 0 THEN 0 ELSE choose(n - 1, k - 1) + choose(n - 1, k)
RECURSIVE sum_choose(_, _)
sum_choose(n, m) == IF m = 0 THEN 0 ELSE choose(n, m) + sum_choose(n, m - 1)

\* C16: generate_all_combos(entries, M) on N distinct entries returns the subsets
\* of the entries of size 1..M and nothing else, no two of them equal, so
\* C(N,1) + ... + C(N,M) combinations.
C16_AllCombos ==
    (impl = "combos" /\ call_result # None) =>
       LET out == call_result[1]
           S == SeqToSet(call_args.entries)
           M == call_args.max_num_combos
       IN /\ SeqToSet(out) = {c \in SUBSET S : 1 <= Cardinality(c) /\ Cardinality(c) <= M}
          /\ \A x, y \in 1..Len(out) : x # y => out[x] # out[y]
          /\ Len(out) = sum_choose(Len(call_args.entries), M)

\* the call returned on three entries and a maximum size of two: six combinations
C16_Witness ==
    /\ impl = "combos" /\ call_result # None
    /\ Len(call_args.entries) = 3 /\ call_args.max_num_combos = 2
    /\ Len(call_result[1]) = 6

\* C17: the graph has at most one Reactants node and at most one Products node
\* per entry set, and every reaction edge goes from the Reactants node of the
\* reaction's reactant entries to the Products node of its product entries.
C17_NodeIdentity ==
    /\ (impl = "network" /\ g # NoGraph) =>
          /\ \A x, y \in reactants_of(g) \cup products_of(g) : x # y => g.nodes[x] # g.nodes[y]
          /\ \A e \in DOMAIN g.edges :
                is_rxn(e.data) =>
                   /\ g.nodes[e.src] = NetworkEntry(e.data.reactant_entries, "Reactants")
                   /\ g.nodes[e.dst] = NetworkEntry(e.data.product_entries, "Products")
    /\ (impl = "core" /\ rxn_network # NoGraph) =>
          \A e \in DOMAIN rxn_network.edges :
             rxn_network.edges[e].rxn # None =>
                /\ e[1] = RxnEntries(rxn_network.edges[e].rxn[1].reactant_entries, "r")
                /\ e[2] = RxnEntries(rxn_network.edges[e].rxn[1].product_entries, "p")

\* two reactions share their reactant entries or their product entries, and the
\* graph built from them was linked to precursors and to a target
C17_Witness ==
    /\ impl = "network" /\ g # NoGraph /\ Len(rxns) = 2
    /\ (rxns[1].reactant_entries = rxns[2].reactant_entries
          \/ rxns[1].product_entries = rxns[2].product_entries)
    /\ count_nodes(g, "Precursors") = 1 /\ count_nodes(g, "Target") = 1
    /\ last = <<"set_target">> /\ outcome = "ok"

\* the reaction edges of the core.py graph, as (reactants, products)
core_rxn_pairs == {<<e[1].entries, e[2].entries>> :
                     e \in {x \in DOMAIN rxn_network.edges : rxn_network.edges[x].rxn # None}}

\* C18: every reaction edge Reactants(R) -> Products(P) of the builder has R # P
\* and the elements of R are those of P; a pair the balancer fails on has no
\* edge, and the build ends without an error.
C18_ReactionEdges ==
    (impl = "core" /\ rxn_network # NoGraph) =>
       /\ \A x \in core_rxn_pairs :
             /\ x[1] # x[2]
             /\ elems_of(x[1]) = elems_of(x[2])
             /\ x[1] \in SeqToSet(all_combos) /\ x[2] \in SeqToSet(all_combos)
       /\ \A R, P \in SeqToSet(all_combos) :
             ComputedReaction(R, P) = None => <<R, P>> \notin core_rxn_pairs
       /\ last = <<"generate_rxn_network">> => outcome = "ok"

\* a graph with a reaction edge, and a pair of different combinations of the same
\* elements that the balancer fails on
C18_Witness ==
    /\ impl = "core" /\ rxn_network # NoGraph
    /\ core_rxn_pairs # {}
    /\ \E R, P \in SeqToSet(all_combos) :
          /\ R # P /\ elems_of(R) = elems_of(P)
          /\ ComputedReaction(R, P) = None
          /\ <<R, P>> \notin core_rxn_pairs

\* C19: set_precursors or set_target called on a built graph with an entry that is
\* not among the entries of the network ends with the not-in-network error and
\* leaves the graph, the stored precursors and the stored target as they were.
C19_NotInNetwork ==
    [][/\ \A ps \in PrecursorInputs :
            (~not_g /\ ~(ps \subseteq entries_of(rxns)) /\ set_precursors(ps))
               => (outcome' = "not_in_network" /\ UNCHANGED <<g, precursors, target>>)
       /\ \A t \in AllEntries :
            (~not_g /\ t \notin entries_of(rxns) /\ set_target(t))
               => (outcome' = "not_in_network" /\ UNCHANGED <<g, precursors, target>>)]_vars

\* a call failed with the not-in-network error on a graph linked to precursors
\* and to a target
C19_Witness ==
    /\ impl = "network" /\ outcome = "not_in_network"
    /\ count_nodes(g, "Precursors") = 1 /\ count_nodes(g, "Target") = 1
    /\ precursors # None /\ target # None

\* C20: before build() set_precursors, set_target and find_pathways end with an
\* error and leave the stored precursors and target alone; once build() has been
\* called set_precursors and set_target never end with the must-call-build error.
C20_BuildFirst ==
    /\ (impl = "network" /\ nbuilds = 0) =>
          /\ precursors = None /\ target = None
          /\ last[1] \in {"set_precursors", "set_target"} => outcome = "must_build"
          /\ last[1] = "find_pathways" => outcome = "must_set_precursors"
    /\ (impl = "network" /\ nbuilds > 0 /\ last[1] \in {"set_precursors", "set_target"})
          => outcome # "must_build"

\* C21: no network is configured with max_num_components below 1, and none with
\* an empty universe of combinations.
C21_ConfigRejected ==
    impl = "core" => (max_num_components >= 1 /\ all_combos # <<>>)

net_shaped(gr) ==
    \A e \in DOMAIN gr.edges :
       IF gr.nodes[e.dst].description = "Products"
       THEN gr.nodes[e.src].description = "Reactants"
       ELSE get_edge_weight(e.data) = 0
\* the steps of a path that arrive at a Products node
products_steps(gr, path) == {s \in 1..Len(path) : gr.nodes[path[s]].description = "Products"}
nth_step(steps, j) == CHOOSE s \in steps : Cardinality({t \in steps : t <= s}) = j
RECURSIVE seq_sum(_)
seq_sum(q) == IF q = <<>> THEN 0 ELSE Head(q) + seq_sum(Tail(q))

C25_EdgesRestored ==
    [][impl = "yens" => (yen_in' = yen_in /\ yg' = yen_in.g)]_vars
C25_Witness ==
    /\ impl = "yens" /\ pc = "spur" /\ k_iter >= 2 /\ i_spur >= 1
    /\ \E x, y \in 1..Len(a_list) :
          /\ x # y
          /\ a_list[x][2] = a_list[y][2]
          /\ CopiesIn([src |-> a_list[x][1], dst |-> a_list[x][2],
                       data |-> get_edge_data(yg, a_list[x][1], a_list[x][2])], yg.edges) = 2

\* the place of the first b.put of an item
first_push(item) == CHOOSE j \in 1..Len(b_pushed) :
                       b_pushed[j] = item /\ \A h \in 1..(j - 1) : b_pushed[h] # item
\* the candidates another one was accepted ahead of: q was pushed before the
\* accepted path x was, with the same cost, and is still waiting in the queue
waits_behind(x, j) ==
    /\ BagIn(b_pushed[j], b_queue)
    /\ b_pushed[j][2] \notin SeqToSet(a_list)
    /\ b_pushed[j][1] = a_costs[x]
    /\ j < first_push(<<a_costs[x], a_list[x]>>)

\* C26: the candidates are keyed by total cost and ties are broken by insertion
\* order: no candidate is accepted while one of equal cost pushed before it waits.
C26_TiesByInsertion ==
    impl = "yens" =>
       \A x \in 2..Len(a_list), j \in 1..Len(b_pushed) : ~waits_behind(x, j)
\* C26 (amended): ties are broken by the order of the paths as lists of node
\* indices: a candidate accepted ahead of one of equal cost pushed before it is
\* the smaller list.
C26_TiesByPath ==
    impl = "yens" =>
       \A x \in 2..Len(a_list), j \in 1..Len(b_pushed) :
          waits_behind(x, j) => list_less(a_list[x], b_pushed[j][2])
C26_Witness ==
    /\ impl = "yens" /\ pc = "loop" /\ Len(a_list) >= 2
    /\ \E j \in 1..Len(b_pushed) : waits_behind(Len(a_list), j)

\* the reaction edges of the core.py graph, and the least of their energies
core_rxn_edges == {x \in DOMAIN rxn_network.edges : rxn_network.edges[x].rxn # None}
energy_of(e) == rxn_network.edges[e].rxn[1].energy
min_energy == CHOOSE m \in {energy_of(e) : e \in core_rxn_edges} :
                 \A e \in core_rxn_edges : m <= energy_of(e)
rat_le(a, b) == a.n * b.d <= b.n * a.d
after_bipartite_build ==
    /\ impl = "core" /\ rxn_network # NoGraph
    /\ last = <<"generate_rxn_network">> /\ cost_function = Some("bipartite")

\* C27: after a build with the bipartite cost function a reaction edge of energy
\* e >= 0 has weight 2e + 1 and one of energy e < 0 has weight 1 - e/m, m the
\* least energy over the reaction edges of the build; the weights of the
\* negative energies lie in [0, 1), the others are >= 1, and a lower energy
\* never has a higher weight.
C27_BipartiteWeights ==
    after_bipartite_build =>
       /\ \A e \in core_rxn_edges :
             LET w == rxn_network.edges[e].weight
             IN IF energy_of(e) >= 0
                THEN w = Num(2 * energy_of(e) + 1) /\ rat_le(Num(1), w)
                ELSE /\ w = Rat(energy_of(e) - min_energy, -min_energy)
                     /\ rat_le(Num(0), w) /\ ~rat_le(Num(1), w)
       /\ \A e, f \in core_rxn_edges :
             energy_of(e) < energy_of(f) =>
                rat_le(rxn_network.edges[e].weight, rxn_network.edges[f].weight)
C27_Witness ==
    /\ after_bipartite_build
    /\ \E e, f \in core_rxn_edges : energy_of(e) < energy_of(f) /\ energy_of(f) < 0

\* C28: after build and any sequence of set_precursors / set_target calls there is
\* at most one structural edge between any ordered pair of nodes: the loopback
\* Products(P) -> Reactants(P) of build is not added again by set_precursors, and
\* parallel loopback edges do not pile up over the calls.
C28_SingleStructuralEdges ==
    (impl = "network" /\ g # NoGraph) =>
       \A e \in DOMAIN g.edges :
          ~is_rxn(e.data) =>
             /\ g.edges[e] <= 1
             /\ \A f \in DOMAIN g.edges :
                   (~is_rxn(f.data) /\ f.src = e.src /\ f.dst = e.dst) => f = e

\* C29: whenever the stored precursors (the stored target) are set, the graph
\* holds a Precursors (Target) node that wraps exactly that entry set, after any
\* sequence of build, set_precursors, set_target and find_pathways calls.
C29_EndNodesPresent ==
    (impl = "network" /\ g # NoGraph) =>
       /\ precursors # None =>
             \E n \in 1..Len(g.nodes) : g.nodes[n] = NetworkEntry(precursors[1], "Precursors")
       /\ target # None =>
             \E n \in 1..Len(g.nodes) : g.nodes[n] = NetworkEntry({target[1]}, "Target")
====
